---------------------------- MODULE Spec2Model ----------------------------
(***************************************************************************)
(* A model of clabot (cmd/clabot.go): a CI bot that checks whether the     *)
(* author of a pull request has signed the CLA and reports a commit status *)
(* and, when the author has not signed, a comment.                         *)
(*                                                                         *)
(* Strings the program applies string functions to (logins, comment        *)
(* bodies, the CSV document, the signer file, BOT_IGNORE_AUTHORS, the      *)
(* comment message) are sequences of one-character strings, so that        *)
(* strings.ToLower, strings.TrimSpace, strings.Contains, strings.Split and *)
(* encoding/csv are computed character by character.  Strings the program  *)
(* only passes along (SHAs, branch names, paths, URLs) are TLA+ strings.   *)
(***************************************************************************)
EXTENDS Integers, Sequences, FiniteSets, TLC

(***************************************************************************)
(* Bounds of the model.                                                    *)
(***************************************************************************)
\* Number of human-originated events (workflow triggers) in one behaviour.
MaxHuman == 2
\* Longest CSV document enumerated over CsvAlphabet in SpecCSV.
MaxDocLen == 4

(***************************************************************************)
(* The strings package.                                                    *)
(***************************************************************************)
UpperLetters ==
    <<"A", "B", "C", "D", "E", "F", "G", "H", "I", "J", "K", "L", "M",
      "N", "O", "P", "Q", "R", "S", "T", "U", "V", "W", "X", "Y", "Z">>

LowerLetters ==
    <<"a", "b", "c", "d", "e", "f", "g", "h", "i", "j", "k", "l", "m",
      "n", "o", "p", "q", "r", "s", "t", "u", "v", "w", "x", "y", "z">>

SpaceChars == {" ", "\t", "\n", "\r"}

ToLowerChar(c) ==
    IF \E i \in 1..26 : UpperLetters[i] = c
    THEN LowerLetters[CHOOSE i \in 1..26 : UpperLetters[i] = c]
    ELSE c

\* strings.ToLower, on ASCII text
ToLower(s) == [i \in 1..Len(s) |-> ToLowerChar(s[i])]

\* strings.TrimSpace
TrimSpace(s) ==
    LET keep == {i \in 1..Len(s) : s[i] \notin SpaceChars}
    IN  IF keep = {} THEN <<>>
        ELSE SubSeq(s, CHOOSE i \in keep : \A j \in keep : i <= j,
                       CHOOSE i \in keep : \A j \in keep : i >= j)

\* strings.Contains
Contains(s, sub) ==
    \E i \in 0..(Len(s) - Len(sub)) : SubSeq(s, i + 1, i + Len(sub)) = sub

\* strings.HasPrefix
HasPrefix(s, prefix) ==
    /\ Len(s) >= Len(prefix)
    /\ SubSeq(s, 1, Len(prefix)) = prefix

RECURSIVE SplitFrom(_, _, _, _)
SplitFrom(s, sep, i, cur) ==
    IF i > Len(s) THEN <<cur>>
    ELSE IF s[i] = sep THEN <<cur>> \o SplitFrom(s, sep, i + 1, <<>>)
    ELSE SplitFrom(s, sep, i + 1, Append(cur, s[i]))

\* strings.Split on a one-character separator
Split(s, sep) == SplitFrom(s, sep, 1, <<>>)

(***************************************************************************)
(* encoding/csv: Reader.ReadAll with the default settings (Comma ',',      *)
(* FieldsPerRecord 0, LazyQuotes false, TrimLeadingSpace false).           *)
(* The scanner's mode is "start" (at the start of a field; rec is empty at *)
(* the start of a record), "unq" (inside an unquoted field), "q" (inside a *)
(* quoted field) or "qq" (after a quote met inside a quoted field).  An    *)
(* empty line at the start of a record is skipped.  The result is          *)
(* [err, rows].                                                            *)
(***************************************************************************)
RECURSIVE CsvScan(_, _, _, _, _, _)
CsvScan(s, i, mode, field, rec, rows) ==
    IF i > Len(s) THEN
        CASE mode = "q" -> [err |-> TRUE, rows |-> <<>>]
          [] mode = "start" /\ rec = <<>> -> [err |-> FALSE, rows |-> rows]
          [] OTHER -> [err |-> FALSE, rows |-> Append(rows, Append(rec, field))]
    ELSE LET c == s[i] IN
        CASE mode = "start" ->
                 IF c = "\n" THEN
                     IF rec = <<>>
                     THEN CsvScan(s, i + 1, "start", <<>>, <<>>, rows)
                     ELSE CsvScan(s, i + 1, "start", <<>>, <<>>,
                                  Append(rows, Append(rec, <<>>)))
                 ELSE IF c = "," THEN
                     CsvScan(s, i + 1, "start", <<>>, Append(rec, <<>>), rows)
                 ELSE IF c = "\"" THEN
                     CsvScan(s, i + 1, "q", <<>>, rec, rows)
                 ELSE CsvScan(s, i + 1, "unq", <<c>>, rec, rows)
          [] mode = "unq" ->
                 IF c = "\n" THEN
                     CsvScan(s, i + 1, "start", <<>>, <<>>,
                             Append(rows, Append(rec, field)))
                 ELSE IF c = "," THEN
                     CsvScan(s, i + 1, "start", <<>>, Append(rec, field), rows)
                 ELSE IF c = "\"" THEN [err |-> TRUE, rows |-> <<>>]
                 ELSE CsvScan(s, i + 1, "unq", Append(field, c), rec, rows)
          [] mode = "q" ->
                 IF c = "\"" THEN CsvScan(s, i + 1, "qq", field, rec, rows)
                 ELSE CsvScan(s, i + 1, "q", Append(field, c), rec, rows)
          [] OTHER ->
                 IF c = "\"" THEN
                     CsvScan(s, i + 1, "q", Append(field, c), rec, rows)
                 ELSE IF c = "," THEN
                     CsvScan(s, i + 1, "start", <<>>, Append(rec, field), rows)
                 ELSE IF c = "\n" THEN
                     CsvScan(s, i + 1, "start", <<>>, <<>>,
                             Append(rows, Append(rec, field)))
                 ELSE [err |-> TRUE, rows |-> <<>>]

\* csv.Reader.ReadAll: the records, or an error (a quote error, or a record
\* whose number of fields differs from the first record's: ErrFieldCount)
ReadAll(body) ==
    LET scanned == CsvScan(body, 1, "start", <<>>, <<>>, <<>>)
    IN  IF scanned.err THEN scanned
        ELSE IF \E k \in 1..Len(scanned.rows) :
                    Len(scanned.rows[k]) # Len(scanned.rows[1])
        THEN [err |-> TRUE, rows |-> <<>>]
        ELSE scanned

(***************************************************************************)
(* The signer sources.  A function of the program returns                  *)
(* [status, set]: status "ok" with the set, "err" for a returned error,    *)
(* "panic" for a run-time panic (index out of range).                      *)
(***************************************************************************)
StatusOK == 200

Failed(status) == [status |-> status, set |-> {}]

\* An HTTP exchange: the transport failed, or a response with code and body.
HttpResponse(transport, code, body) ==
    [transport |-> transport, code |-> code, body |-> body]

\* loadSignersFromGoogleSheet, given what http.DefaultClient.Do returns
loadSignersFromGoogleSheet(csvURL, resp) ==
    IF csvURL = "" THEN Failed("err")
    ELSE IF resp.transport THEN Failed("err")
    ELSE IF resp.code # StatusOK THEN Failed("err")
    ELSE LET parsed == ReadAll(resp.body)
             rows == parsed.rows
             \* rows after the header that the loop does not skip
             read == {i \in 2..Len(rows) : Len(rows[i]) # 0}
         IN  IF parsed.err THEN Failed("err")
             ELSE IF \E i \in read : Len(rows[i]) < 2 THEN Failed("panic")
             ELSE [status |-> "ok",
                   set |-> {ToLower(TrimSpace(rows[i][2])) : i \in read}
                               \ {<<>>}]

\* A reply of Repositories.GetContents and of file.GetContent: the fetch
\* failed, the content cannot be decoded, or the file's text.
ContentsReply(fetchErr, decodeErr, text) ==
    [fetchErr |-> fetchErr, decodeErr |-> decodeErr, text |-> text]

\* loadSignersGithub, given the platform's reply for c.SignersPath at ref
loadSignersGithub(reply) ==
    IF reply.fetchErr THEN Failed("err")
    ELSE IF reply.decodeErr THEN Failed("err")
    ELSE LET lines == Split(reply.text, "\n")
             kept == {i \in 1..Len(lines) :
                         /\ TrimSpace(lines[i]) # <<>>
                         /\ ~HasPrefix(TrimSpace(lines[i]), <<"#">>)}
         IN  [status |-> "ok",
              set |-> {ToLower(TrimSpace(lines[i])) : i \in kept}]

\* loadSigners that takes a sheet that failed to load for an empty sheet
loadSigners_SheetErrorSkipped(c, resp, reply) ==
    LET file == IF c.SignersPath # ""
                THEN loadSignersGithub(reply)
                ELSE [status |-> "ok", set |-> {}]
    IN  IF file.status # "ok"
        THEN [status |-> file.status, set |-> {}, source |-> "repo file"]
        ELSE [status |-> "ok",
              set |-> (IF c.GoogleSheetUrl # ""
                       THEN loadSignersFromGoogleSheet(c.GoogleSheetUrl,
                                                       resp).set
                       ELSE {}) \cup file.set,
              source |-> ""]

\* loadSigners: [status, set, source], source naming the failed source
loadSigners(c, resp, reply) ==
    LET sheet == IF c.GoogleSheetUrl # ""
                 THEN loadSignersFromGoogleSheet(c.GoogleSheetUrl, resp)
                 ELSE [status |-> "ok", set |-> {}]
        file  == IF c.SignersPath # ""
                 THEN loadSignersGithub(reply)
                 ELSE [status |-> "ok", set |-> {}]
    IN  IF sheet.status # "ok"
        THEN [status |-> sheet.status, set |-> {}, source |-> "sheet"]
        ELSE IF file.status # "ok"
        THEN [status |-> file.status, set |-> {}, source |-> "repo file"]
        ELSE [status |-> "ok", set |-> sheet.set \cup file.set,
              source |-> ""]

(***************************************************************************)
(* Configuration: fromEnv.  GITHUB_REPOSITORY is "<owner>/<repo>", as the  *)
(* CI platform sets it.                                                    *)
(***************************************************************************)
DefaultIgnoreRaw == <<"g", "i", "t", "h", "u", "b", "-", "a", "c", "t", "i", "o", "n", "s", "[", "b", "o", "t", "]">>

\* The grave accent of the default message, written as a name: it is a
\* character no string function of the program treats specially.
Grave == "grave"

DefaultCommentMsg == <<"P", "l", "e", "a", "s", "e", " ", "s", "i", "g", "n", " ", "t", "h", "e", " ", "C", "L", "A", " ", "a", "n", "d", " ", "t", "h", "e", "n", " ", "c", "o", "m", "m", "e", "n", "t", " ", Grave, "@", "c", "l", "a", "-", "b", "o", "t", " ", "c", "h", "e", "c", "k", Grave, " ", "o", "n", " ", "t", "h", "i", "s", " ", "P", "R", ".">>

Environment(eventName, signersPath, sheetUrl, commentMsg, ignoreAuthors) ==
    [GITHUB_EVENT_NAME |-> eventName, SIGNERS_PATH |-> signersPath,
     GOOGLE_SHEET_URL |-> sheetUrl, COMMENT_MSG |-> commentMsg,
     BOT_IGNORE_AUTHORS |-> ignoreAuthors]

\* fromEnv; eventPath is GITHUB_EVENT_PATH
fromEnv(env, eventPath) ==
    LET raw == IF env.BOT_IGNORE_AUTHORS = <<>> THEN DefaultIgnoreRaw
               ELSE env.BOT_IGNORE_AUTHORS
        parts == Split(raw, ",")
    IN  [EventName |-> env.GITHUB_EVENT_NAME,
         EventPath |-> eventPath,
         SignersPath |-> env.SIGNERS_PATH,
         GoogleSheetUrl |-> env.GOOGLE_SHEET_URL,
         CommentMsg |-> IF env.COMMENT_MSG = <<>> THEN DefaultCommentMsg
                        ELSE env.COMMENT_MSG,
         IgnoreAuthors |-> {ToLower(TrimSpace(parts[i])) : i \in 1..Len(parts)}]

\* The cfg of an invocation that is not running.
NoCfg ==
    [EventName |-> "", EventPath |-> "", SignersPath |-> "",
     GoogleSheetUrl |-> "", CommentMsg |-> <<>>, IgnoreAuthors |-> {}]

(***************************************************************************)
(* Files and JSON.  The content of a file is [exists, syntax, pull_request,*)
(* issue, comment]: whether the file exists, whether its bytes are valid   *)
(* JSON, and the values of the three top-level keys the program's event    *)
(* types read.  A value is absent, a number (a value of the wrong type) or *)
(* an object with the fields the program reads.                            *)
(***************************************************************************)
JsonValue(t, number, login, sha, ref, body, is_pr) ==
    [t |-> t, number |-> number, login |-> login, sha |-> sha, ref |-> ref,
     body |-> body, is_pr |-> is_pr]

Absent == JsonValue("absent", 0, <<>>, "", "", <<>>, FALSE)

WrongType == JsonValue("num", 0, <<>>, "", "", <<>>, FALSE)

\* {"number": n, "user": {"login": l}, "head": {"sha": s}, "base": {"ref": r}}
PullRequestJson(number, login, sha, ref) ==
    JsonValue("obj", number, login, sha, ref, <<>>, FALSE)

\* {"number": n} and, for a pull request, "pull_request": {...}
IssueJson(number, is_pr) == JsonValue("obj", number, <<>>, "", "", <<>>, is_pr)

\* {"user": {"login": l}, "body": b}
CommentJson(login, body) == JsonValue("obj", 0, login, "", "", body, FALSE)

FileContent(exists, syntax, pull_request, issue, comment) ==
    [exists |-> exists, syntax |-> syntax, pull_request |-> pull_request,
     issue |-> issue, comment |-> comment]

NoFile == FileContent(FALSE, FALSE, Absent, Absent, Absent)

\* a file whose bytes are not JSON (an empty or truncated file among them)
NotJson == FileContent(TRUE, FALSE, Absent, Absent, Absent)

JsonFile(pull_request, issue, comment) ==
    FileContent(TRUE, TRUE, pull_request, issue, comment)

\* json.Marshal(github.PullRequestEvent{PullRequest: pr}), pr as fetched
Marshal(pr) ==
    JsonFile(PullRequestJson(pr.number, pr.login, pr.sha, pr.ref),
             Absent, Absent)

\* What the getters give on a nil *PullRequest: the zero values.
NilPullRequest == [nil |-> TRUE, number |-> 0, login |-> <<>>, sha |-> "", ref |-> ""]

\* parseEvent(path, &github.PullRequestEvent{}): [err, pr].  Keys the type
\* does not declare are ignored and a missing key leaves the field nil.
parsePullRequestEvent(data) ==
    IF ~data.exists THEN [err |-> "read", pr |-> NilPullRequest]
    ELSE IF ~data.syntax \/ data.pull_request.t = "num"
    THEN [err |-> "decode", pr |-> NilPullRequest]
    ELSE IF data.pull_request.t = "absent"
    THEN [err |-> "", pr |-> NilPullRequest]
    ELSE [err |-> "",
          pr |-> [nil |-> FALSE, number |-> data.pull_request.number,
                  login |-> data.pull_request.login,
                  sha |-> data.pull_request.sha,
                  ref |-> data.pull_request.ref]]

\* parseEvent(path, &github.IssueCommentEvent{}): [err, login, body, number,
\* is_pr], the last four as the getters give them
parseIssueCommentEvent(data) ==
    LET none == [err |-> "", login |-> <<>>, body |-> <<>>, number |-> 0,
                 is_pr |-> FALSE]
    IN  IF ~data.exists THEN [none EXCEPT !.err = "read"]
        ELSE IF \/ ~data.syntax
                \/ data.issue.t = "num"
                \/ data.comment.t = "num"
        THEN [none EXCEPT !.err = "decode"]
        ELSE [err |-> "",
              login |-> data.comment.login,
              body |-> data.comment.body,
              number |-> data.issue.number,
              is_pr |-> data.issue.is_pr]

(***************************************************************************)
(* The decisions of the handlers.                                          *)
(***************************************************************************)
MentionToken == <<"@", "c", "l", "a", "-", "b", "o", "t">>

CheckCommand == <<"c", "l", "a", "-", "b", "o", "t", " ", "c", "h", "e", "c", "k">>

\* a switch whose default case falls into the pull_request handler
Dispatch_DefaultHandled(eventName) ==
    CASE eventName = "issue_comment" -> "handleIssueComment"
      [] OTHER -> "handlePullRequest"

\* main's switch: the handler an event name is dispatched to
Dispatch(eventName) ==
    CASE eventName = "pull_request" -> "handlePullRequest"
      [] eventName = "issue_comment" -> "handleIssueComment"
      [] OTHER -> "ignored"

\* a handler without the ignore-list guard
IsIgnored_Never(c, login) == FALSE

\* handleIssueComment: the comment is written by an ignored author
IsIgnored(c, login) == ToLower(login) \in c.IgnoreAuthors

\* handleIssueComment: the comment's body holds a trigger phrase
IsTrigger(body) ==
    \/ Contains(ToLower(body), MentionToken)
    \/ Contains(ToLower(body), CheckCommand)

\* the guards without the check that the issue is a pull request
PassesGuards_AnyIssue(c, ev) ==
    /\ ~IsIgnored(c, ev.login)
    /\ IsTrigger(ev.body)

\* handleIssueComment's three guards: the run goes on to fetch the PR
PassesGuards(c, ev) ==
    /\ ~IsIgnored(c, ev.login)
    /\ ev.is_pr
    /\ IsTrigger(ev.body)

\* handlePullRequest: the author looked up in the signer set
Author(pr) == ToLower(pr.login)

\* An outbound call, as the platform (or the sheet's host) receives it.
Call(op, number, sha, ref, state, body) ==
    [op |-> op, number |-> number, sha |-> sha, ref |-> ref,
     state |-> state, body |-> body]

\* postStatus
postStatus(sha, state) == Call("postStatus", 0, sha, "", state, <<>>)

\* postComment
postComment(prNumber, body) == Call("postComment", prNumber, "", "", "", body)

\* a report that comments whatever the verdict
Report_AlwaysComments(c, pr, signerSet) ==
    <<postStatus(pr.sha, IF Author(pr) \in signerSet THEN "success"
                         ELSE "failure"),
      postComment(pr.number,
                  <<"@">> \o Author(pr) \o <<" ">> \o c.CommentMsg)>>

\* handlePullRequest's report: the calls made for pr, given the signers
Report(c, pr, signerSet) ==
    IF Author(pr) \in signerSet
    THEN <<postStatus(pr.sha, "success")>>
    ELSE <<postStatus(pr.sha, "failure"),
           postComment(pr.number,
                       <<"@">> \o Author(pr) \o <<" ">> \o c.CommentMsg)>>

(***************************************************************************)
(* The world the bot runs in: the pull requests of the repository, and the *)
(* inputs an invocation can meet.                                          *)
(***************************************************************************)
LoginAlice == <<"A", "l", "i", "c", "e">>

LoginAliceSpaced == <<" ", "A", "l", "i", "c", "e", " ">>

LoginCarol == <<"c", "a", "r", "o", "l">>

LoginDave == <<"D", "a", "v", "e">>

\* the identity the bot posts its comments with
LoginBot == <<"G", "i", "t", "H", "u", "b", "-", "A", "c", "t", "i", "o", "n", "s", "[", "b", "o", "t", "]">>

\* The pull requests of the repository, by number, as PullRequests.Get
\* returns them.
PullRequests ==
    (1 :> [nil |-> FALSE, number |-> 1, login |-> LoginAlice,
           sha |-> "sha-1", ref |-> "main"])
    @@ (2 :> [nil |-> FALSE, number |-> 2, login |-> LoginCarol,
              sha |-> "sha-2", ref |-> "dev"])

\* the issues that are not pull requests
PlainIssues == {7}

CustomIgnoreRaw == <<" ", "D", "a", "v", "e", " ", ",", " ", "G", "i", "t", "H", "u", "b", "-", "A", "c", "t", "i", "o", "n", "s", "[", "b", "o", "t", "]">>

CustomCommentMsg == <<"s", "i", "g", "n">>

SheetUrl == "https://sheets.example/export?format=csv"

\* The environments of an invocation: every ignore-list holds the identity
\* the bot posts with.
Envs ==
    {Environment(n, sp, url, msg, ign) :
        n \in {"pull_request", "issue_comment", "push"},
        sp \in {"", "cla-signers.txt"},
        url \in {"", SheetUrl},
        msg \in {<<>>, CustomCommentMsg},
        ign \in {<<>>, CustomIgnoreRaw}}

BodyReview == <<"p", "l", "e", "a", "s", "e", " ", "r", "e", "v", "i", "e", "w">>

BodyMention == <<"@", "C", "L", "A", "-", "B", "o", "t", " ", "c", "h", "e", "c", "k">>

BodyCommand == <<"C", "L", "A", "-", "b", "o", "t", " ", "c", "h", "e", "c", "k", " ", "p", "l", "e", "a", "s", "e">>

\* The payload of an issue_comment event.
IssueCommentPayload(number, is_pr, login, body) ==
    JsonFile(Absent, IssueJson(number, is_pr), CommentJson(login, body))

\* The payloads of the comments people write.
CommentPayloads ==
    {IssueCommentPayload(n, n \in DOMAIN PullRequests, login, body) :
        n \in DOMAIN PullRequests \cup PlainIssues,
        login \in {LoginDave, LoginBot, LoginCarol},
        body \in {BodyReview, BodyMention, BodyCommand}}

\* The payloads of pull_request events: pull request 1, and one whose
\* author is written with surrounding spaces.
PullRequestPayloads ==
    {Marshal(PullRequests[1]),
     JsonFile(PullRequestJson(3, LoginAliceSpaced, "sha-3", "main"),
              Absent, Absent)}

\* Files that are not the event their kind declares: no file, bytes that
\* are not JSON, the object {}, and objects whose keys hold a number.
MalformedPayloads ==
    {NoFile, NotJson, JsonFile(Absent, Absent, Absent),
     JsonFile(WrongType, Absent, Absent),
     JsonFile(Absent, WrongType, WrongType)}

Payloads == CommentPayloads \cup PullRequestPayloads \cup MalformedPayloads

DocExample == <<"h", "e", "a", "d", "e", "r", "1", ",", "h", "e", "a", "d", "e", "r", "2", "\n", "F", "o", "o", " ", "B", "a", "r", ",", "a", "l", "i", "c", "e", "\n", "B", "a", "z", ",", "B", "o", "b">>

DocOneColumn == <<"l", "o", "g", "i", "n", "\n", "a", "l", "i", "c", "e">>

DocRagged == <<"n", "a", "m", "e", ",", "l", "o", "g", "i", "n", "\n", "c", "a", "r", "o", "l">>

\* What the sheet's host can answer.
SheetResponses ==
    {HttpResponse(TRUE, 0, <<>>), HttpResponse(FALSE, 500, <<>>),
     HttpResponse(FALSE, StatusOK, DocExample),
     HttpResponse(FALSE, StatusOK, DocOneColumn),
     HttpResponse(FALSE, StatusOK, DocRagged)}

\* no request was made
NoResponse == HttpResponse(FALSE, 0, <<>>)

FileExample == <<"#", " ", "c", "o", "m", "m", "e", "n", "t", "\n", "\n", "A", "l", "i", "c", "e", "\n", "B", "O", "B", "\n">>

FileCarol == <<" ", "C", "a", "r", "o", "l", " ", "\n", "#", "a", "l", "i", "c", "e">>

\* What the platform can answer for the signer file.
ContentsReplies ==
    {ContentsReply(TRUE, FALSE, <<>>), ContentsReply(FALSE, TRUE, <<>>),
     ContentsReply(FALSE, FALSE, FileExample),
     ContentsReply(FALSE, FALSE, FileCarol)}

\* no request was made
NoReply == ContentsReply(FALSE, FALSE, <<>>)

(***************************************************************************)
(* State.  Invocations of the bot are processes; each is one run of main.  *)
(***************************************************************************)
Procs == {1, 2}

TmpFile == "/tmp/pr_event.json"

\* GITHUB_EVENT_PATH of invocation p
EventPathOf(p) == IF p = 1 THEN "/runner/1/event.json" ELSE "/runner/2/event.json"

Paths == {EventPathOf(p) : p \in Procs} \cup {TmpFile}

VARIABLES
    pc,          \* pc[p]: where invocation p is
    cfg,         \* cfg[p]: its configuration (c, then subCfg)
    depth,       \* depth[p]: 0 for an event a person caused, n + 1 for the
                 \* delivery of a comment posted by a run of depth n
    ic,          \* ic[p]: the issue_comment event decoded by handleIssueComment
    fetched,     \* fetched[p]: the number of the pull request it fetched, or 0
    pr,          \* pr[p]: the pull request decoded by handlePullRequest
    sheetResp,   \* sheetResp[p]: what the sheet's host answered
    repoReply,   \* repoReply[p]: what the platform answered for the signer file
    signers,     \* signers[p]: the merged signer set
    calls,       \* calls[p]: its outbound calls, in order
    reads,       \* reads[p]: the number of files it has read
    result,      \* result[p]: how the run ended
    err,         \* err[p]: the error main logs: its origin
    files,       \* files[path]: the file system of the host
    pending,     \* comments the bot posted, not yet delivered back as events
    nHuman,      \* events caused by people so far
    nBotComments,\* comments the bot has posted so far
    csvPc,       \* SpecCSV: where the sheet reader is
    csvResp,     \* SpecCSV: the response it is given
    csvOut       \* SpecCSV: what loadSignersFromGoogleSheet returned

locals == <<cfg, depth, ic, fetched, pr, sheetResp, repoReply, signers, calls,
            reads>>

outcome == <<result, err>>

shared == <<files, pending, nHuman, nBotComments>>

csvVars == <<csvPc, csvResp, csvOut>>

vars == <<pc, locals, outcome, shared, csvVars>>

NoComment == [err |-> "", login |-> <<>>, body |-> <<>>, number |-> 0,
              is_pr |-> FALSE]

InitProcs ==
    /\ pc = [p \in Procs |-> "idle"]
    /\ cfg = [p \in Procs |-> NoCfg]
    /\ depth = [p \in Procs |-> 0]
    /\ ic = [p \in Procs |-> NoComment]
    /\ fetched = [p \in Procs |-> 0]
    /\ pr = [p \in Procs |-> NilPullRequest]
    /\ sheetResp = [p \in Procs |-> NoResponse]
    /\ repoReply = [p \in Procs |-> NoReply]
    /\ signers = [p \in Procs |-> {}]
    /\ calls = [p \in Procs |-> <<>>]
    /\ reads = [p \in Procs |-> 0]
    /\ result = [p \in Procs |-> ""]
    /\ err = [p \in Procs |-> ""]
    /\ files = [f \in Paths |-> NoFile]
    /\ pending = <<>>
    /\ nHuman = 0
    /\ nBotComments = 0

Init ==
    /\ InitProcs
    /\ csvPc = "off"
    /\ csvResp = NoResponse
    /\ csvOut = Failed("")

(***************************************************************************)
(* The steps of an invocation.  A step is the code between two accesses to *)
(* what invocations share (the file system, the platform).                 *)
(***************************************************************************)
\* The run of p ends: main logs the error, if any, and returns.
End(p, res, e) ==
    /\ pc' = [pc EXCEPT ![p] = "done"]
    /\ result' = [result EXCEPT ![p] = res]
    /\ err' = [err EXCEPT ![p] = e]

Goto(p, label) ==
    /\ pc' = [pc EXCEPT ![p] = label]
    /\ UNCHANGED outcome

\* The CI platform starts an invocation for an event a person caused: it
\* writes the payload and sets the environment; main calls fromEnv.
Start(p, envs, payloads) ==
    /\ pc[p] = "idle"
    /\ pending = <<>>
    /\ nHuman < MaxHuman
    /\ \E env \in envs, payload \in payloads :
           /\ cfg' = [cfg EXCEPT ![p] = fromEnv(env, EventPathOf(p))]
           /\ files' = [files EXCEPT ![EventPathOf(p)] = payload]
    /\ depth' = [depth EXCEPT ![p] = 0]
    /\ nHuman' = nHuman + 1
    /\ Goto(p, "main")
    /\ UNCHANGED <<ic, fetched, pr, sheetResp, repoReply, signers, calls,
                   reads, pending, nBotComments, csvVars>>

\* The CI platform delivers a comment the bot posted as an issue_comment
\* event written by the identity the bot posts with.
Deliver(p) ==
    /\ pc[p] = "idle"
    /\ pending # <<>>
    /\ \E env \in {e \in Envs : e.GITHUB_EVENT_NAME = "issue_comment"} :
           cfg' = [cfg EXCEPT ![p] = fromEnv(env, EventPathOf(p))]
    /\ files' = [files EXCEPT ![EventPathOf(p)] =
                    IssueCommentPayload(Head(pending).number, TRUE, LoginBot,
                                        Head(pending).body)]
    /\ depth' = [depth EXCEPT ![p] = Head(pending).depth + 1]
    /\ pending' = Tail(pending)
    /\ Goto(p, "main")
    /\ UNCHANGED <<ic, fetched, pr, sheetResp, repoReply, signers, calls,
                   reads, nHuman, nBotComments, csvVars>>

\* main: the switch on c.EventName
Main(p) ==
    /\ pc[p] = "main"
    /\ IF Dispatch(cfg[p].EventName) = "ignored"
       THEN End(p, "ignored", "")
       ELSE Goto(p, Dispatch(cfg[p].EventName))
    /\ UNCHANGED <<locals, shared, csvVars>>

\* handleIssueComment, to the fetch of the pull request: parseEvent and the
\* three guards
handleIssueComment(p) ==
    /\ pc[p] = "handleIssueComment"
    /\ LET ev == parseIssueCommentEvent(files[cfg[p].EventPath])
       IN  /\ ic' = [ic EXCEPT ![p] = ev]
           /\ IF ev.err # "" THEN End(p, "error", ev.err)
              ELSE IF ~PassesGuards(cfg[p], ev) THEN End(p, "noop", "")
              ELSE Goto(p, "getPullRequest")
    /\ reads' = [reads EXCEPT ![p] = @ + 1]
    /\ UNCHANGED <<cfg, depth, fetched, pr, sheetResp, repoReply, signers,
                   calls, shared, csvVars>>

\* handleIssueComment: gh.PullRequests.Get, which can fail
getPullRequest(p) ==
    /\ pc[p] = "getPullRequest"
    /\ calls' = [calls EXCEPT ![p] =
                    Append(@, Call("getPullRequest", ic[p].number, "", "", "",
                                   <<>>))]
    /\ \E ok \in BOOLEAN :
           IF ok /\ ic[p].number \in DOMAIN PullRequests
           THEN /\ fetched' = [fetched EXCEPT ![p] = ic[p].number]
                /\ Goto(p, "openTmpFile")
           ELSE /\ End(p, "error", "get pull request")
                /\ UNCHANGED fetched
    /\ UNCHANGED <<cfg, depth, ic, pr, sheetResp, repoReply, signers, reads,
                   shared, csvVars>>

\* The pull_request configuration handleIssueComment recurses with.
SubCfg(c) == [c EXCEPT !.EventName = "pull_request", !.EventPath = TmpFile]

\* handleIssueComment: os.WriteFile opens the file with O_CREATE|O_TRUNC,
\* which empties it; when the open fails the file is as it was.  The error
\* is discarded and the handler goes on.
openTmpFile(p, outcomes) ==
    /\ pc[p] = "openTmpFile"
    /\ \E opened \in outcomes :
           IF opened
           THEN /\ files' = [files EXCEPT ![TmpFile] = NotJson]
                /\ Goto(p, "writeTmpFile")
                /\ UNCHANGED cfg
           ELSE /\ UNCHANGED files
                /\ cfg' = [cfg EXCEPT ![p] = SubCfg(@)]
                /\ Goto(p, "handlePullRequest")
    /\ UNCHANGED <<depth, ic, fetched, pr, sheetResp, repoReply, signers,
                   calls, reads, pending, nHuman, nBotComments, csvVars>>

\* handleIssueComment: os.WriteFile writes the serialized event; when the
\* write fails the file stays cut short.  The error is discarded.
writeTmpFile(p, outcomes) ==
    /\ pc[p] = "writeTmpFile"
    /\ \E written \in outcomes :
           IF written
           THEN files' = [files EXCEPT ![TmpFile] =
                             Marshal(PullRequests[fetched[p]])]
           ELSE UNCHANGED files
    /\ cfg' = [cfg EXCEPT ![p] = SubCfg(@)]
    /\ Goto(p, "handlePullRequest")
    /\ UNCHANGED <<depth, ic, fetched, pr, sheetResp, repoReply, signers,
                   calls, reads, pending, nHuman, nBotComments, csvVars>>

\* handlePullRequest, to the call of loadSigners: parseEvent(c.EventPath)
handlePullRequest(p) ==
    /\ pc[p] = "handlePullRequest"
    /\ LET ev == parsePullRequestEvent(files[cfg[p].EventPath])
       IN  IF ev.err # ""
           THEN /\ End(p, "error", ev.err)
                /\ UNCHANGED pr
           ELSE /\ pr' = [pr EXCEPT ![p] = ev.pr]
                /\ Goto(p, "loadSigners")
    /\ reads' = [reads EXCEPT ![p] = @ + 1]
    /\ UNCHANGED <<cfg, depth, ic, fetched, sheetResp, repoReply, signers,
                   calls, shared, csvVars>>

\* The requests loadSigners makes, given the sheet's outcome.
LoadCalls(c, ref, sheetOK) ==
    (IF c.GoogleSheetUrl # ""
     THEN <<Call("getSheet", 0, "", "", "", <<>>)>> ELSE <<>>)
    \o (IF c.SignersPath # "" /\ sheetOK
        THEN <<Call("getContents", 0, "", ref, "", <<>>)>> ELSE <<>>)

\* handlePullRequest: loadSigners(ctx, gh, c, pr.GetBase().GetRef())
callLoadSigners(p) ==
    /\ pc[p] = "loadSigners"
    /\ \E resp \in (IF cfg[p].GoogleSheetUrl # "" THEN SheetResponses
                    ELSE {NoResponse}) :
         LET sheetOK == \/ cfg[p].GoogleSheetUrl = ""
                        \/ loadSignersFromGoogleSheet(cfg[p].GoogleSheetUrl,
                                                      resp).status = "ok"
         IN
         \E reply \in (IF cfg[p].SignersPath # "" /\ sheetOK
                       THEN ContentsReplies ELSE {NoReply}) :
           LET out == loadSigners(cfg[p], resp, reply)
           IN  /\ sheetResp' = [sheetResp EXCEPT ![p] = resp]
               /\ repoReply' = [repoReply EXCEPT ![p] = reply]
               /\ calls' = [calls EXCEPT ![p] =
                               @ \o LoadCalls(cfg[p], pr[p].ref, sheetOK)]
               /\ signers' = [signers EXCEPT ![p] = out.set]
               /\ CASE out.status = "ok" -> Goto(p, "report")
                    [] out.status = "err" -> End(p, "error", out.source)
                    [] OTHER -> End(p, "panic", out.source)
    /\ UNCHANGED <<cfg, depth, ic, fetched, pr, reads, shared, csvVars>>

\* The comments among calls that the platform accepted, as pending events.
Posted(called, accepted, d) ==
    IF accepted /\ Len(called) = 2
    THEN <<[number |-> called[2].number, body |-> called[2].body,
            depth |-> d]>>
    ELSE <<>>

\* handlePullRequest: postStatus and, for a non-signer, postComment; both
\* discard the platform's error.  A comment can only be created on an
\* existing issue.
report(p) ==
    /\ pc[p] = "report"
    /\ LET called == Report(cfg[p], pr[p], signers[p])
       IN  /\ calls' = [calls EXCEPT ![p] = @ \o called]
           /\ \E accepted \in (IF pr[p].number # 0 THEN BOOLEAN ELSE {FALSE}) :
                  /\ pending' = pending \o Posted(called, accepted, depth[p])
                  /\ nBotComments' = nBotComments
                                     + Len(Posted(called, accepted, depth[p]))
    /\ End(p, "ok", "")
    /\ UNCHANGED <<cfg, depth, ic, fetched, pr, sheetResp, repoReply, signers,
                   reads, files, nHuman, csvVars>>

\* The process of p exits; the runner removes the payload.
Exit(p) ==
    /\ pc[p] = "done"
    /\ pc' = [pc EXCEPT ![p] = "idle"]
    /\ cfg' = [cfg EXCEPT ![p] = NoCfg]
    /\ depth' = [depth EXCEPT ![p] = 0]
    /\ ic' = [ic EXCEPT ![p] = NoComment]
    /\ fetched' = [fetched EXCEPT ![p] = 0]
    /\ pr' = [pr EXCEPT ![p] = NilPullRequest]
    /\ sheetResp' = [sheetResp EXCEPT ![p] = NoResponse]
    /\ repoReply' = [repoReply EXCEPT ![p] = NoReply]
    /\ signers' = [signers EXCEPT ![p] = {}]
    /\ calls' = [calls EXCEPT ![p] = <<>>]
    /\ reads' = [reads EXCEPT ![p] = 0]
    /\ result' = [result EXCEPT ![p] = ""]
    /\ err' = [err EXCEPT ![p] = ""]
    /\ files' = [files EXCEPT ![EventPathOf(p)] = NoFile]
    /\ UNCHANGED <<pending, nHuman, nBotComments, csvVars>>

(***************************************************************************)
(* Spec: invocations run one after another, as the runs of one workflow on *)
(* one runner do; every comment the bot posts comes back as an event.      *)
(***************************************************************************)
Next ==
    \/ Start(1, Envs, Payloads)
    \/ Deliver(1)
    \/ Main(1)
    \/ handleIssueComment(1)
    \/ getPullRequest(1)
    \/ openTmpFile(1, BOOLEAN)
    \/ writeTmpFile(1, BOOLEAN)
    \/ handlePullRequest(1)
    \/ callLoadSigners(1)
    \/ report(1)
    \/ Exit(1)

Spec == Init /\ [][Next]_vars

(***************************************************************************)
(* SpecConc: two invocations for comments on different pull requests run   *)
(* at the same time on one host, every file operation succeeding.          *)
(***************************************************************************)
ConcEnvs ==
    {Environment("issue_comment", "cla-signers.txt", "", <<>>, <<>>)}

\* invocation p is for a comment on pull request p
ConcPayloads(p) == {IssueCommentPayload(p, TRUE, LoginDave, BodyMention)}

NextConc ==
    \E p \in Procs :
        \/ Start(p, ConcEnvs, ConcPayloads(p))
        \/ Main(p)
        \/ handleIssueComment(p)
        \/ getPullRequest(p)
        \/ openTmpFile(p, {TRUE})
        \/ writeTmpFile(p, {TRUE})
        \/ handlePullRequest(p)
        \/ callLoadSigners(p)
        \/ report(p)
        \/ Exit(p)

SpecConc == Init /\ [][NextConc]_vars

(***************************************************************************)
(* SpecCSV: loadSignersFromGoogleSheet applied to every response whose     *)
(* body is a document of at most MaxDocLen characters of CsvAlphabet, or   *)
(* one of the named documents.                                             *)
(***************************************************************************)
CsvAlphabet == {"a", "B", " ", ",", "\n", "\""}

Docs ==
    UNION {[1..n -> CsvAlphabet] : n \in 0..MaxDocLen}
    \cup {DocExample, DocOneColumn, DocRagged}

CsvResponses ==
    {HttpResponse(FALSE, StatusOK, d) : d \in Docs}
    \cup {HttpResponse(TRUE, 0, <<>>), HttpResponse(FALSE, 500, <<>>)}

InitCSV ==
    /\ InitProcs
    /\ csvPc = "ready"
    /\ csvResp \in CsvResponses
    /\ csvOut = Failed("")

\* the call loadSignersFromGoogleSheet(ctx, c.GoogleSheetUrl)
callLoadSignersFromGoogleSheet ==
    /\ csvPc = "ready"
    /\ csvOut' = loadSignersFromGoogleSheet(SheetUrl, csvResp)
    /\ csvPc' = "returned"
    /\ UNCHANGED <<pc, locals, outcome, shared, csvResp>>

NextCSV == callLoadSignersFromGoogleSheet

SpecCSV == InitCSV /\ [][NextCSV]_vars

(***************************************************************************)
(* The claims.                                                             *)
(***************************************************************************)
\* The number of calls of kind op that invocation p has made.
Count(p, op) == Cardinality({i \in 1..Len(calls[p]) : calls[p][i].op = op})

Posts(p) == Count(p, "postStatus") + Count(p, "postComment")

\* The sheet's host did not hand over a document that parses as CSV.
SheetFailed(resp) ==
    \/ resp.transport
    \/ resp.code # StatusOK
    \/ ReadAll(resp.body).err

\* The platform did not hand over the text of the signer file.
RepoFailed(reply) == reply.fetchErr \/ reply.decodeErr

\* p asked a signer source and the source failed.
SourceFailed(p) ==
    \/ Count(p, "getSheet") > 0 /\ SheetFailed(sheetResp[p])
    \/ Count(p, "getContents") > 0 /\ RepoFailed(repoReply[p])

\* C1: when loading a configured signer source fails (the sheet's status is
\* not 200, its transport fails, its CSV does not parse, or the repository
\* file cannot be fetched or decoded), the run returns an error and makes no
\* postStatus and no postComment call.
C1_SourceFailureAborts ==
    \A p \in Procs :
        SourceFailed(p) =>
            /\ pc[p] = "done"
            /\ result[p] = "error"
            /\ Posts(p) = 0

C1_Witness ==
    /\ pc[1] = "done"
    /\ Count(1, "getSheet") > 0
    /\ sheetResp[1].code = 500
    /\ result[1] = "error"

\* The run of p has ended, having decoded its pull_request event (the
\* payload, or the file handleIssueComment wrote) and loaded every
\* configured signer source without an error or a panic.
ReachedVerdict(p) ==
    /\ pc[p] = "done"
    /\ cfg[p].EventName = "pull_request"
    /\ parsePullRequestEvent(files[cfg[p].EventPath]).err = ""
    /\ ~SourceFailed(p)
    /\ result[p] # "panic"

\* C2: a run that reaches a verdict calls postStatus exactly once, and
\* postComment once when the author is not a signer and never when the
\* author is one; a run that ends in an error or a no-op calls neither, and
\* no run posts before its verdict.
C2_OneStatusPerVerdict ==
    \A p \in Procs :
        /\ ReachedVerdict(p) => result[p] = "ok"
        /\ IF pc[p] = "done" /\ result[p] = "ok"
           THEN /\ Count(p, "postStatus") = 1
                /\ Count(p, "postComment")
                      = (IF ToLower(pr[p].login) \in signers[p] THEN 0 ELSE 1)
           ELSE Posts(p) = 0

C2_Witness ==
    /\ pc[1] = "done"
    /\ result[1] = "ok"
    /\ ToLower(pr[1].login) \notin signers[1]
    /\ Count(1, "postStatus") = 1
    /\ Count(1, "postComment") = 1

\* An identifier as the specification normalizes it.
Normalize(s) == ToLower(TrimSpace(s))

\* The union of the signer sets of the sources configured for p, as answered.
SourceUnion(p) ==
    (IF cfg[p].GoogleSheetUrl # ""
     THEN loadSignersFromGoogleSheet(cfg[p].GoogleSheetUrl, sheetResp[p]).set
     ELSE {})
    \cup (IF cfg[p].SignersPath # ""
          THEN loadSignersGithub(repoReply[p]).set
          ELSE {})

\* C3: the status posted is success if and only if the author, trimmed and
\* lowercased, is in the union of the signer sets of the configured sources;
\* otherwise it is failure and the one comment is "@<author> <message>".
C3_TrimmedMembershipDecidesStatus ==
    \A p \in Procs :
        (pc[p] = "done" /\ result[p] = "ok") =>
            /\ Count(p, "postStatus") = 1
            /\ \A i \in 1..Len(calls[p]) :
                   /\ calls[p][i].op = "postStatus" =>
                          (calls[p][i].state = "success"
                              <=> Normalize(pr[p].login) \in SourceUnion(p))
                   /\ calls[p][i].op = "postComment" =>
                          calls[p][i].body
                              = <<"@">> \o ToLower(pr[p].login) \o <<" ">>
                                    \o cfg[p].CommentMsg

\* p runs, or has run, handleIssueComment.
IsCommentRun(p) ==
    \/ cfg[p].EventName = "issue_comment"
    \/ cfg[p].EventPath = TmpFile

\* The three guards, read off the comment event: the author is not in the
\* ignore-list, the issue is a pull request, the body holds a trigger phrase.
GuardsPass(c, ev) ==
    /\ ToLower(ev.login) \notin c.IgnoreAuthors
    /\ ev.is_pr
    /\ \/ Contains(ToLower(ev.body), MentionToken)
       \/ Contains(ToLower(ev.body), CheckCommand)

C5_NoBotLoop ==
    /\ nBotComments <= nHuman
    /\ \A i \in 1..Len(pending) : pending[i].depth = 0
    /\ \A p \in Procs :
           depth[p] > 0 =>
               /\ depth[p] = 1
               /\ calls[p] = <<>>
               /\ result[p] \in {"", "noop"}

C5_Witness ==
    /\ pc[1] = "done"
    /\ depth[1] = 1
    /\ ic[1].login = LoginBot
    /\ Contains(ToLower(ic[1].body), CheckCommand)
    /\ result[1] = "noop"
    /\ nBotComments = 1

\* The event kind p was started for.
DeclaredKind(p) ==
    IF IsCommentRun(p) THEN "issue_comment" ELSE cfg[p].EventName

\* The payload is not JSON, or is JSON without the object its kind has.
Malformed(kind, data) ==
    \/ ~data.syntax
    \/ kind = "pull_request" /\ data.pull_request.t # "obj"
    \/ kind = "issue_comment"
          /\ (data.issue.t # "obj" \/ data.comment.t # "obj")

\* C6: when the payload is not valid JSON or does not have the shape of the
\* declared event kind, decoding fails: the run ends with an error, before
\* any signer source is fetched and any status or comment posted.
C6_MalformedPayloadAborts ==
    \A p \in Procs :
        (/\ DeclaredKind(p) \in {"pull_request", "issue_comment"}
         /\ files[EventPathOf(p)].exists
         /\ Malformed(DeclaredKind(p), files[EventPathOf(p)]))
        => /\ calls[p] = <<>>
           /\ pc[p] = "done" => result[p] = "error"

\* The signer set the specification gives for parsed rows: the normalized,
\* non-empty second column of every row after the first that has one.
ExpectedSheetSigners(rows) ==
    {Normalize(rows[i][2]) : i \in {j \in 2..Len(rows) : Len(rows[j]) >= 2}}
        \ {<<>>}

\* C7: for every fetched document that parses as CSV,
\* loadSignersFromGoogleSheet returns, without failing, the normalized
\* non-empty values of column 1 of the rows after the first, skipping the
\* rows with fewer than two columns.
C7_SheetSignersAreSecondColumn ==
    (/\ csvPc = "returned"
     /\ ~csvResp.transport
     /\ csvResp.code = StatusOK
     /\ ~ReadAll(csvResp.body).err)
    => /\ csvOut.status = "ok"
       /\ csvOut.set = ExpectedSheetSigners(ReadAll(csvResp.body).rows)

\* C8: for an event kind other than pull_request and issue_comment the run
\* ends at once with no error, has read no file and made no outbound call.
C8_OtherEventsIgnored ==
    \A p \in Procs :
        (/\ pc[p] # "idle"
         /\ ~IsCommentRun(p)
         /\ cfg[p].EventName # "pull_request")
        => /\ pc[p] \in {"main", "done"}
           /\ reads[p] = 0
           /\ calls[p] = <<>>
           /\ pc[p] = "done" => (result[p] = "ignored" /\ err[p] = "")

C8_Witness ==
    /\ pc[1] = "done"
    /\ cfg[1].EventName = "push"
    /\ files[EventPathOf(1)].exists
    /\ result[1] = "ignored"

\* The calls of p are those of a pull_request run for pull request n: the
\* signer file read at its base branch, the status on its head SHA and for
\* its author, the comment on it.
ActsOn(p, n) ==
    \A i \in 1..Len(calls[p]) :
        /\ calls[p][i].op = "getContents"
               => calls[p][i].ref = PullRequests[n].ref
        /\ calls[p][i].op = "postStatus"
               => /\ calls[p][i].sha = PullRequests[n].sha
                  /\ calls[p][i].state = "success"
                         <=> ToLower(PullRequests[n].login) \in signers[p]
        /\ calls[p][i].op = "postComment" => calls[p][i].number = n

\* C9: an issue_comment run that passed the guards and fetched pull request
\* N ends as a pull_request run for N would: it does not fail to read or
\* decode the event, and its calls are those for N; whatever runs came before
\* and whether or not the write of /tmp/pr_event.json succeeded.
C9_CommentRunActsOnFetchedPullRequest ==
    \A p \in Procs :
        (fetched[p] # 0 /\ pc[p] = "done") =>
            /\ err[p] \notin {"read", "decode"}
            /\ ActsOn(p, fetched[p])

\* C10: with two issue_comment invocations for different pull requests
\* running at the same time, each posts its status on the head SHA of the
\* pull request it fetched itself, with the verdict for that pull request's
\* author.
C10_NoInterference ==
    \A p \in Procs :
        fetched[p] # 0 =>
            \A i \in 1..Len(calls[p]) :
                calls[p][i].op = "postStatus" =>
                    /\ calls[p][i].sha = PullRequests[fetched[p]].sha
                    /\ calls[p][i].state = "success"
                           <=> ToLower(PullRequests[fetched[p]].login)
                                   \in signers[p]

=============================================================================
